---- MODULE Spec2Model ----
(***************************************************************************)
(* A model of pretty_j1939/parse.py: the identifier decomposition          *)
(* (parse_j1939_id), the whole-message describer (describe_message_data)   *)
(* and the BAM transport reassembler (get_bam_processor/process_for_bams). *)
(*                                                                         *)
(* Python sequences are 0-based; the model keeps TLA+'s 1-based sequences  *)
(* and goes through Item/list_setitem/Slice, which take Python indices.    *)
(***************************************************************************)
EXTENDS Integers, Sequences, FiniteSets, TLC

\* ------------------------------------------------------------------------
\* Program constants (parse.py lines 9-11, 36, 40, 48, 27, 29, 257)
\* ------------------------------------------------------------------------
DA_MASK == 65280
SA_MASK == 255
PF_MASK == 16711680
CM_PF_BITS == 15466496
DT_PF_BITS == 15400960
BAM_CONTROL_BYTE == 32
PDU2_THRESHOLD == 240
BROADCAST_DA == 255
UNSET_BYTE == 255
BYTES_PER_PACKET == 7

\* ------------------------------------------------------------------------
\* Bounds of the model
\* ------------------------------------------------------------------------
\* expected_packets declared by a BAM ranges over 0..MaxPackets
MaxPackets == 2

\* ------------------------------------------------------------------------
\* Python integer and sequence primitives
\* ------------------------------------------------------------------------
\* x & y on two bytes
RECURSIVE ByteAnd(_, _)
ByteAnd(x, y) ==
    IF x = 0 \/ y = 0 THEN 0
    ELSE IF y = 255 THEN x
    ELSE IF x = 255 THEN y
    ELSE (x % 2) * (y % 2) + 2 * ByteAnd(x \div 2, y \div 2)

\* a & b on non-negative integers, byte by byte
RECURSIVE BitAnd(_, _)
BitAnd(a, b) ==
    IF a = 0 \/ b = 0 THEN 0
    ELSE ByteAnd(a % 256, b % 256) + 256 * BitAnd(a \div 256, b \div 256)

RECURSIVE Pow2(_)
Pow2(n) == IF n = 0 THEN 1 ELSE 2 * Pow2(n - 1)

ShiftRight(x, n) == x \div Pow2(n)

ShiftLeft(x, n) == x * Pow2(n)

Min(a, b) == IF a <= b THEN a ELSE b

\* seq[i] for a Python index i >= 0; the caller checks InRange first
Item(s, i) == s[i + 1]

InRange(s, i) == i >= 0 /\ i < Len(s)

\* s[0:n] for n >= 0
Slice(s, n) == SubSeq(s, 1, Min(n, Len(s)))

\* list.__setitem__(idx, b): an index in 0..len-1 is written, an index in
\* -len..-1 counts from the end, any other index is an IndexError
list_setitem(buf, idx, b) ==
    IF idx >= 0 /\ idx < Len(buf)
    THEN [ok |-> TRUE, buf |-> [buf EXCEPT ![idx + 1] = b]]
    ELSE IF idx < 0 /\ idx >= -Len(buf)
    THEN [ok |-> TRUE, buf |-> [buf EXCEPT ![Len(buf) + idx + 1] = b]]
    ELSE [ok |-> FALSE, buf |-> buf]

\* ------------------------------------------------------------------------
\* Identifier decomposition and frame classification
\* ------------------------------------------------------------------------
\* line 27 with > for >=
parse_j1939_id_StrictThreshold(id) ==
    LET sa == BitAnd(SA_MASK, id)
        pf == ShiftRight(BitAnd(PF_MASK, id), 16)
        da == ShiftRight(BitAnd(DA_MASK, id), 8)
    IN  IF pf > PDU2_THRESHOLD
        THEN [pgn |-> pf * 256 + da, da |-> BROADCAST_DA, sa |-> sa]
        ELSE [pgn |-> pf * 256, da |-> da, sa |-> sa]

\* without line 29
parse_j1939_id_KeepDa(id) ==
    LET sa == BitAnd(SA_MASK, id)
        pf == ShiftRight(BitAnd(PF_MASK, id), 16)
        da == ShiftRight(BitAnd(DA_MASK, id), 8)
    IN  IF pf >= PDU2_THRESHOLD
        THEN [pgn |-> pf * 256 + da, da |-> da, sa |-> sa]
        ELSE [pgn |-> pf * 256, da |-> da, sa |-> sa]

\* lines 22-32
parse_j1939_id(id) ==
    LET sa == BitAnd(SA_MASK, id)
        pf == ShiftRight(BitAnd(PF_MASK, id), 16)
        da == ShiftRight(BitAnd(DA_MASK, id), 8)
    IN  IF pf >= PDU2_THRESHOLD
        THEN [pgn |-> pf * 256 + da, da |-> BROADCAST_DA, sa |-> sa]
        ELSE [pgn |-> pf * 256, da |-> da, sa |-> sa]

is_connection_management_message(message_id) ==
    BitAnd(message_id, PF_MASK) = CM_PF_BITS

is_data_transfer_message(message_id) ==
    BitAnd(message_id, PF_MASK) = DT_PF_BITS

\* reads message_bytes[0]; the caller checks the payload is not empty
is_bam_cts_message(message_bytes) ==
    Item(message_bytes, 0) = BAM_CONTROL_BYTE

\* ------------------------------------------------------------------------
\* State of the BAM processor returned by get_bam_processor
\* ------------------------------------------------------------------------
VARIABLES
    new_pgn,        \* dict sa -> PGN announced by the BAM
    new_data,       \* dict sa -> list of 7 * packets bytes
    new_packets,    \* dict sa -> number of packets announced
    new_length,     \* dict sa -> total length announced
    frame,          \* arguments of the last process_for_bams call
    bam_found,      \* process_bam_found invocations made by the last call
    raised,         \* exception the last call propagated to its caller
    printed,        \* number of exceptions the last call caught and printed
    run,            \* history: per sender, the frames sent since its last BAM
    can_id,         \* argument of parse_j1939_id
    parsed,         \* what parse_j1939_id returned for can_id
    j1939db,        \* the global database of parse.py
    message,        \* arguments of describe_message_data
    described       \* outcome of describe_message_data for message

bam_state == <<new_pgn, new_data, new_packets, new_length>>

bam_vars == <<new_pgn, new_data, new_packets, new_length,
              frame, bam_found, raised, printed, run>>

id_vars == <<can_id, parsed>>

describe_vars == <<j1939db, message, described>>

vars == <<bam_vars, id_vars, describe_vars>>

EmptyDict == [k \in {} |-> 0]

\* d[k] = v on a dict; the variant writes v under every key
DictSet_Unkeyed(d, k, v) == [x \in DOMAIN d \cup {k} |-> v]

DictSet(d, k, v) == [x \in DOMAIN d \cup {k} |-> IF x = k THEN v ELSE d[x]]

NoFrame == [message_bytes |-> <<>>, message_id |-> 0, sa |-> 0, timestamp |-> 0]

\* line 257: [0xFF for i in range(7 * packets)]
FreshBuffer_Zeroed(packets) ==
    [i \in 1..(BYTES_PER_PACKET * packets) |-> 0]

FreshBuffer(packets) ==
    [i \in 1..(BYTES_PER_PACKET * packets) |-> UNSET_BYTE]

\* lines 254-257: the session a BAM frame of 8 bytes opens
BamSession(message_bytes) ==
    LET packets == Item(message_bytes, 3)
    IN  [pgn     |-> ShiftLeft(Item(message_bytes, 7), 16)
                     + ShiftLeft(Item(message_bytes, 6), 8)
                     + Item(message_bytes, 5),
         length  |-> ShiftLeft(Item(message_bytes, 2), 8) + Item(message_bytes, 1),
         packets |-> packets,
         data    |-> FreshBuffer(packets)]

\* lines 262-266: for b, i in zip(message_bytes[1:], range(7)), from index i on
RECURSIVE CopyLoop(_, _, _)
CopyLoop(buf, message_bytes, i) ==
    IF i >= BYTES_PER_PACKET \/ ~InRange(message_bytes, i + 1)
    THEN [buf |-> buf, printed |-> 0]
    ELSE LET w == list_setitem(buf,
                               i + BYTES_PER_PACKET * (Item(message_bytes, 0) - 1),
                               Item(message_bytes, i + 1))
             rest == CopyLoop(w.buf, message_bytes, i + 1)
         IN  [buf |-> rest.buf,
              printed |-> rest.printed + (IF w.ok THEN 0 ELSE 1)]

\* lines 267-269: the completion test of a data-transfer frame
IsFinalPacket(message_bytes, packets) == Item(message_bytes, 0) = packets

\* lines 268-269: the arguments process_bam_found is called with
Completion_Untruncated(buf, length, sa, pgn, timestamp) ==
    [data_bytes |-> buf, sa |-> sa, pgn |-> pgn, timestamp |-> timestamp]

Completion(buf, length, sa, pgn, timestamp) ==
    [data_bytes |-> Slice(buf, length), sa |-> sa, pgn |-> pgn,
     timestamp |-> timestamp]

\* ------------------------------------------------------------------------
\* process_for_bams (lines 251-269) as one step
\* ------------------------------------------------------------------------
Quiet == /\ bam_found' = <<>>
         /\ raised' = "none"
         /\ printed' = 0

Raise(e) == /\ bam_found' = <<>>
            /\ raised' = e
            /\ printed' = 0

OnConnectionManagement(message_bytes, sa) ==
    IF ~InRange(message_bytes, 0)
    THEN Raise("IndexError") /\ UNCHANGED bam_state
    ELSE IF ~is_bam_cts_message(message_bytes)
    THEN Quiet /\ UNCHANGED bam_state
    ELSE IF ~InRange(message_bytes, 7)
    THEN Raise("IndexError") /\ UNCHANGED bam_state
    ELSE LET s == BamSession(message_bytes)
         IN  /\ new_pgn' = DictSet(new_pgn, sa, s.pgn)
             /\ new_length' = DictSet(new_length, sa, s.length)
             /\ new_packets' = DictSet(new_packets, sa, s.packets)
             /\ new_data' = DictSet(new_data, sa, s.data)
             /\ Quiet

\* lines 262-269: the body run for a sender that has a session
CopyAndComplete(message_bytes, sa, timestamp) ==
    LET c == CopyLoop(new_data[sa], message_bytes, 0)
    IN  /\ new_data' = [new_data EXCEPT ![sa] = c.buf]
        /\ UNCHANGED <<new_pgn, new_packets, new_length>>
        /\ IF ~InRange(message_bytes, 0)
           THEN Raise("IndexError")
           ELSE /\ raised' = "none"
                /\ printed' = c.printed
                /\ bam_found' =
                     IF IsFinalPacket(message_bytes, new_packets[sa])
                     THEN <<Completion(c.buf, new_length[sa], sa,
                                       new_pgn[sa], timestamp)>>
                     ELSE <<>>

\* lines 261-269 without the test of line 261: new_data[sa] is a KeyError
OnDataTransfer_Unguarded(message_bytes, sa, timestamp) ==
    IF sa \notin DOMAIN new_data
    THEN Raise("KeyError") /\ UNCHANGED bam_state
    ELSE CopyAndComplete(message_bytes, sa, timestamp)

\* lines 261-269
OnDataTransfer(message_bytes, sa, timestamp) ==
    IF sa \notin DOMAIN new_data
    THEN Quiet /\ UNCHANGED bam_state
    ELSE CopyAndComplete(message_bytes, sa, timestamp)

process_for_bams(message_bytes, message_id, sa, timestamp) ==
    /\ frame' = [message_bytes |-> message_bytes, message_id |-> message_id,
                 sa |-> sa, timestamp |-> timestamp]
    /\ IF is_connection_management_message(message_id)
       THEN OnConnectionManagement(message_bytes, sa)
       ELSE IF is_data_transfer_message(message_id)
       THEN OnDataTransfer(message_bytes, sa, timestamp)
       ELSE Quiet /\ UNCHANGED bam_state
    /\ UNCHANGED <<id_vars, describe_vars>>

\* ------------------------------------------------------------------------
\* The frames handed to process_for_bams.  Address 0 sends the full input
\* alphabet; address 33 is a second sender with a smaller one.
\* ------------------------------------------------------------------------
SourceAddresses == {0, 33}
IsPrimary(sa) == sa = 0
\* data-transfer frames carry either timestamp, the other frames the first
Timestamps == {1, 2}
OtherTimestamps == {1}
\* data-transfer frames carry one of two distinct 7-byte data patterns
Tags == {0, 1}

\* what a BAM announces besides the packet count: PGN and total length
Announcements ==
    {[pgn |-> 65251, length |-> 11], [pgn |-> 130762, length |-> 267]}

AnnouncementsOf(sa) ==
    IF IsPrimary(sa) THEN Announcements
    ELSE {[pgn |-> 65251, length |-> 11]}

PacketCountsOf(sa) == IF IsPrimary(sa) THEN 0..MaxPackets ELSE {1}

SequenceNumbersOf(sa) == IF IsPrimary(sa) THEN 0..(MaxPackets + 1) ELSE {1, 2}

TagsOf(sa) == IF IsPrimary(sa) THEN Tags ELSE {0}

\* a 29-bit identifier of priority 6, PDU format pf, PDU specific 255
MakeId(pf, sa) == 402653184 + pf * 65536 + 65280 + sa

CmId(sa) == MakeId(236, sa)
DtId(sa) == MakeId(235, sa)
OtherId(sa) == MakeId(254, sa)

CmPayload(control, length, packets, pgn) ==
    <<control, length % 256, length \div 256, packets, 255,
      pgn % 256, (pgn \div 256) % 256, pgn \div 65536>>

\* the 7 data bytes of pattern tag: all different, none equal to 0xFF
TagData(tag) == [i \in 1..BYTES_PER_PACKET |-> 16 * (tag + 1) + (i - 1)]

DtPayload(seq, tag) == <<seq>> \o TagData(tag)

\* connection-management payloads that open no session: another control
\* byte (RTS), and payloads cut short
NonBamPayloadsOf(sa) ==
    IF IsPrimary(sa)
    THEN {<<>>, <<BAM_CONTROL_BYTE>>, CmPayload(16, 11, 2, 65251)}
    ELSE {CmPayload(16, 11, 2, 65251)}

\* data-transfer payloads cut short: no byte at all, or the sequence number only
ShortDtPayloadsOf(sa) ==
    IF IsPrimary(sa)
    THEN {<<>>} \cup {<<seq>> : seq \in SequenceNumbersOf(sa)}
    ELSE {<<2>>}

\* History kept beside the program: what sender sa has sent since its last
\* BAM, as long as that is the data-transfer frames 1, 2, ... in order, each
\* with 7 data bytes, and nothing else.
\* superseded: the BAM arrived while an earlier run of the sender had
\* received data and was not complete.
NoRun == [open |-> FALSE, length |-> 0, packets |-> 0, pgn |-> 0,
          next |-> 0, cat |-> <<>>, superseded |-> FALSE]

RunOpened(a, n, prev) ==
    [open |-> TRUE, length |-> a.length, packets |-> n, pgn |-> a.pgn,
     next |-> 1, cat |-> <<>>,
     superseded |-> prev.open /\ prev.next >= 2 /\ prev.next <= prev.packets]

RunAfterData(r, seq, tag) ==
    IF r.open /\ seq = r.next /\ seq <= r.packets
    THEN [r EXCEPT !.next = seq + 1, !.cat = r.cat \o TagData(tag)]
    ELSE NoRun

SendBam ==
    \E sa \in SourceAddresses, ts \in OtherTimestamps :
        \E a \in AnnouncementsOf(sa), n \in PacketCountsOf(sa) :
            /\ process_for_bams(CmPayload(BAM_CONTROL_BYTE, a.length, n, a.pgn),
                                CmId(sa), sa, ts)
            /\ run' = [run EXCEPT ![sa] = RunOpened(a, n, run[sa])]

SendOtherConnectionManagement ==
    \E sa \in SourceAddresses, ts \in OtherTimestamps :
        \E payload \in NonBamPayloadsOf(sa) :
            /\ process_for_bams(payload, CmId(sa), sa, ts)
            /\ run' = [run EXCEPT ![sa] = NoRun]

SendDataTransfer ==
    \E sa \in SourceAddresses, ts \in Timestamps :
        \E seq \in SequenceNumbersOf(sa), tag \in TagsOf(sa) :
            /\ process_for_bams(DtPayload(seq, tag), DtId(sa), sa, ts)
            /\ run' = [run EXCEPT ![sa] = RunAfterData(run[sa], seq, tag)]

SendShortDataTransfer ==
    \E sa \in SourceAddresses, ts \in Timestamps :
        \E payload \in ShortDtPayloadsOf(sa) :
            /\ process_for_bams(payload, DtId(sa), sa, ts)
            /\ run' = [run EXCEPT ![sa] = NoRun]

SendOther ==
    \E sa \in SourceAddresses, ts \in OtherTimestamps :
        /\ process_for_bams(DtPayload(1, 0), OtherId(sa), sa, ts)
        /\ run' = [run EXCEPT ![sa] = NoRun]

\* get_bam_processor: the four dicts start empty
BamInit ==
    /\ new_pgn = EmptyDict
    /\ new_data = EmptyDict
    /\ new_packets = EmptyDict
    /\ new_length = EmptyDict
    /\ frame = NoFrame
    /\ bam_found = <<>>
    /\ raised = "none"
    /\ printed = 0
    /\ run = [sa \in SourceAddresses |-> NoRun]

NotParsed == [pgn |-> -1, da |-> -1, sa |-> -1]

IdIdle == can_id = 0 /\ parsed = NotParsed

\* line 13: j1939db = {}
EmptyDb == [J1939PGNdb |-> EmptyDict, J1939SPNdb |-> EmptyDict,
            J1939BitDecodings |-> EmptyDict]

NoMessage == [message_id |-> 0, message_data |-> <<>>, include_na |-> FALSE]

NotDescribed == [status |-> "idle", description |-> EmptyDict]

DescribeIdle ==
    /\ j1939db = EmptyDb
    /\ message = NoMessage
    /\ described = NotDescribed

Init == BamInit /\ IdIdle /\ DescribeIdle

Next ==
    \/ SendBam
    \/ SendOtherConnectionManagement
    \/ SendDataTransfer
    \/ SendShortDataTransfer
    \/ SendOther

Spec == Init /\ [][Next]_vars

\* ------------------------------------------------------------------------
\* parse_j1939_id applied to identifiers
\* ------------------------------------------------------------------------
\* bits 24 and up, PDU format, PDU specific and source address bytes
HighBits == {0, 12, 24, 31}
PduFormats == {0, 200, 235, 236, 239, 240, 254, 255}
PduSpecifics == {0, 33, 241, 255}
AddressBytes == {0, 33, 255}

CanIds ==
    {hi * 16777216 + pf * 65536 + ps * 256 + sa :
        hi \in HighBits, pf \in PduFormats, ps \in PduSpecifics,
        sa \in AddressBytes}

Decompose ==
    /\ parsed = NotParsed
    /\ parsed' = parse_j1939_id(can_id)
    /\ UNCHANGED <<can_id, bam_vars, describe_vars>>

NextIdentifier ==
    /\ parsed # NotParsed
    /\ \E id \in CanIds : can_id' = id
    /\ parsed' = NotParsed
    /\ UNCHANGED <<bam_vars, describe_vars>>

IdInit ==
    /\ BamInit
    /\ DescribeIdle
    /\ can_id \in CanIds
    /\ parsed = NotParsed

IdNext == Decompose \/ NextIdentifier

SpecId == IdInit /\ [][IdNext]_vars

\* ------------------------------------------------------------------------
\* describe_message_data (lines 197-233) and what it calls
\* ------------------------------------------------------------------------
\* str.lower() on the unit strings of the databases below
Lower(units) ==
    CASE units = "ASCII" -> "ascii"
      [] units = "Binary" -> "binary"
      [] units = "Request Dependent" -> "request dependent"
      [] OTHER -> units

\* sorted() on a list of integers
RECURSIVE Insert(_, _)
Insert(x, s) ==
    IF s = <<>> THEN <<x>>
    ELSE IF x <= Head(s) THEN <<x>> \o s
    ELSE <<Head(s)>> \o Insert(x, Tail(s))

RECURSIVE Sorted(_)
Sorted(s) == IF s = <<>> THEN <<>> ELSE Insert(Head(s), Sorted(Tail(s)))

\* the 8 bits of a byte, most significant first
ByteBits(b) == [i \in 1..8 |-> (b \div Pow2(8 - i)) % 2]

RECURSIVE BitsOf(_)
BitsOf(bytes) ==
    IF bytes = <<>> THEN <<>> ELSE ByteBits(Head(bytes)) \o BitsOf(Tail(bytes))

\* bitstring's byteswap(): the whole bytes of the field change places, byte
\* by byte, and the bits after the last whole byte stay
RECURSIVE ReverseBytes(_)
ReverseBytes(bits) ==
    IF Len(bits) < 8 THEN <<>>
    ELSE ReverseBytes(SubSeq(bits, 9, Len(bits))) \o SubSeq(bits, 1, 8)

ByteSwap(bits) ==
    LET whole == 8 * (Len(bits) \div 8)
    IN  ReverseBytes(SubSeq(bits, 1, whole)) \o SubSeq(bits, whole + 1, Len(bits))

\* BitString.uint
RECURSIVE Uint(_)
Uint(bits) ==
    IF bits = <<>> THEN 0
    ELSE 2 * Uint(SubSeq(bits, 1, Len(bits) - 1)) + bits[Len(bits)]

\* BitString.all(True)
AllOnes(bits) == \A i \in 1..Len(bits) : bits[i] = 1

\* lines 73-78
get_spn_list(pgn) ==
    IF pgn \in DOMAIN j1939db.J1939PGNdb
    THEN Sorted(j1939db.J1939PGNdb[pgn].SPNs)
    ELSE <<>>

\* lines 81-86
get_spn_name(spn) ==
    IF spn \in DOMAIN j1939db.J1939SPNdb
    THEN j1939db.J1939SPNdb[spn].Name
    ELSE "Unknown"

\* lines 149-156; the caller checks spn is in the database
get_spn_bytes(message_data, spn) ==
    LET spn_start == j1939db.J1939SPNdb[spn].StartBit
        spn_end == j1939db.J1939SPNdb[spn].EndBit
        bits == BitsOf(message_data)
    IN  ByteSwap(SubSeq(bits, spn_start + 1, Min(spn_end + 1, Len(bits))))

\* lines 159-160
is_spn_bitencoded(spn_units) == Lower(spn_units) \in {"bit", "binary"}

\* lines 163-166
is_spn_numerical_values(spn) ==
    Lower(j1939db.J1939SPNdb[spn].Units) \notin
        {"manufacturer determined", "byte", "", "request dependent", "ascii"}

\* lines 171-194 with validate = True: None, a value, or a ValueError
get_spn_value(message_data, spn) ==
    LET e == j1939db.J1939SPNdb[spn]
        scale == IF e.Resolution <= 0 THEN 1 ELSE e.Resolution
        cut_data == get_spn_bytes(message_data, spn)
        value == Uint(cut_data) * scale + e.Offset
    IN  IF AllOnes(cut_data) THEN [kind |-> "None", value |-> 0]
        ELSE IF is_spn_bitencoded(e.Units)
        THEN [kind |-> "value", value |-> Uint(cut_data)]
        ELSE IF value < e.OperationalLow \/ value > e.OperationalHigh
        THEN [kind |-> "ValueError", value |-> 0]
        ELSE [kind |-> "value", value |-> value]

\* lines 214-219: the label of a bit-encoded value, "Unknown" on a KeyError
EnumLabel(spn, spn_value) ==
    IF /\ spn \in DOMAIN j1939db.J1939BitDecodings
       /\ spn_value \in DOMAIN j1939db.J1939BitDecodings[spn]
    THEN j1939db.J1939BitDecodings[spn][spn_value]
    ELSE "Unknown"

\* lines 205-231: the entry of one SPN that is in the database; "skip" for
\* the continue of line 212
DescribeSpn(message_data, spn, include_na) ==
    LET spn_units == j1939db.J1939SPNdb[spn].Units
        raw == get_spn_bytes(message_data, spn)
        v == get_spn_value(message_data, spn)
    IN  IF is_spn_numerical_values(spn)
        THEN IF v.kind = "ValueError"
             THEN [kind |-> "raw", bits |-> raw, note |-> "Out of range"]
             ELSE IF v.kind = "None"
             THEN IF include_na THEN [kind |-> "N/A"] ELSE [kind |-> "skip"]
             ELSE IF is_spn_bitencoded(spn_units)
             THEN [kind |-> "enum", value |-> v.value,
                   label |-> EnumLabel(spn, v.value)]
             ELSE [kind |-> "number", value |-> v.value, units |-> spn_units]
        ELSE IF Lower(spn_units) = "request dependent"
             THEN [kind |-> "raw", bits |-> raw, note |-> spn_units]
             ELSE IF Lower(spn_units) = "ascii"
             THEN [kind |-> "bytes", bits |-> raw]
             ELSE [kind |-> "raw", bits |-> raw, note |-> ""]

\* lines 201-233: the loop over the SPNs; line 203 reads the units of the SPN
\* outside any try, so an SPN that is not in the database is a KeyError that
\* leaves describe_message_data
RECURSIVE DescribeLoop(_, _, _, _)
DescribeLoop(spns, message_data, include_na, description) ==
    IF spns = <<>> THEN [status |-> "returned", description |-> description]
    ELSE LET spn == Head(spns)
             spn_name == get_spn_name(spn)
         IN  IF spn \notin DOMAIN j1939db.J1939SPNdb
             THEN [status |-> "KeyError", description |-> EmptyDict]
             ELSE LET entry == DescribeSpn(message_data, spn, include_na)
                  IN  DescribeLoop(Tail(spns), message_data, include_na,
                          IF entry.kind = "skip" THEN description
                          ELSE DictSet(description, spn_name, entry))

\* lines 197-233
describe_message_data(message_id, message_data, include_na) ==
    DescribeLoop(get_spn_list(parse_j1939_id(message_id).pgn),
                 message_data, include_na, EmptyDict)

\* ------------------------------------------------------------------------
\* Databases and messages describe_message_data is applied to
\* ------------------------------------------------------------------------
SpnEntries ==
    (84 :> [Name |-> "Wheel-Based Vehicle Speed", Units |-> "km/h",
            StartBit |-> 8, EndBit |-> 23, Offset |-> 0, Resolution |-> 0,
            OperationalLow |-> 0, OperationalHigh |-> 250])
    @@ (595 :> [Name |-> "Cruise Control Active", Units |-> "bit",
                StartBit |-> 30, EndBit |-> 31, Offset |-> 0, Resolution |-> 1,
                OperationalLow |-> 0, OperationalHigh |-> 3])
    @@ (237 :> [Name |-> "Vehicle Identification Number", Units |-> "ASCII",
                StartBit |-> 32, EndBit |-> 47, Offset |-> 0, Resolution |-> 1,
                OperationalLow |-> 0, OperationalHigh |-> 0])

BitDecodings == (595 :> (0 :> "off" @@ 1 :> "on"))

\* SPN 999 and SPN 50 are named by the PGN and are not in the SPN database
DbWith(spns) ==
    [J1939PGNdb |-> (65265 :> [Name |-> "Cruise Control/Vehicle Speed",
                               Label |-> "CCVS", SPNs |-> spns]),
     J1939SPNdb |-> SpnEntries,
     J1939BitDecodings |-> BitDecodings]

Databases ==
    {DbWith(<<595, 84, 237>>), DbWith(<<999, 84, 595>>), DbWith(<<84, 50, 237>>)}

\* 0x18FEF100, 0x18FEF121: PGN 65265; 0x18FEEE00: a PGN the database lacks
MessageIds == {419361024, 419361057, 419360256}

MessageData ==
    {<<255, 255, 255, 255, 255, 255, 255, 255>>,
     <<0, 16, 0, 1, 65, 66, 0, 0>>,
     <<0, 0, 64, 2, 65, 66, 0, 0>>,
     <<0, 200, 0, 252, 255, 255, 0, 0>>}

Messages ==
    [message_id : MessageIds, message_data : MessageData, include_na : BOOLEAN]

Describe ==
    /\ described.status = "idle"
    /\ described' = describe_message_data(message.message_id,
                                          message.message_data,
                                          message.include_na)
    /\ UNCHANGED <<j1939db, message, bam_vars, id_vars>>

NextMessage ==
    /\ described.status # "idle"
    /\ \E m \in Messages : message' = m
    /\ described' = NotDescribed
    /\ UNCHANGED <<j1939db, bam_vars, id_vars>>

DescribeInit ==
    /\ BamInit
    /\ IdIdle
    /\ j1939db \in Databases
    /\ message \in Messages
    /\ described = NotDescribed

DescribeNext == Describe \/ NextMessage

SpecDescribe == DescribeInit /\ [][DescribeNext]_vars

\* ------------------------------------------------------------------------
\* Properties of the BAM processor
\* ------------------------------------------------------------------------
LastWasDataTransfer == frame.message_id = DtId(frame.sa)

LastWasBam ==
    /\ frame.message_id = CmId(frame.sa)
    /\ Len(frame.message_bytes) = 8
    /\ frame.message_bytes[1] = BAM_CONTROL_BYTE

HasSession(sa) == sa \in DOMAIN new_data

\* the session of sa as one value, "none" when there is no entry
SessionOf(sa) ==
    IF sa \in DOMAIN new_data
    THEN [pgn |-> new_pgn[sa], length |-> new_length[sa],
          packets |-> new_packets[sa], data |-> new_data[sa]]
    ELSE [pgn |-> -1, length |-> -1, packets |-> -1, data |-> <<>>]

\* C1: after a BAM announcing length L and N packets with L <= 7*N, followed
\* by the data-transfer frames 1..N of the same sender in order (7 data bytes
\* each, nothing else from the sender in between), no frame before the N-th
\* invokes the callback and the N-th invokes it exactly once, with the first
\* L bytes of the concatenated data, the sender, the PGN of the BAM and the
\* timestamp of that last frame.
C1_InOrderCompletion ==
    \A sa \in SourceAddresses :
        LET r == run[sa]
        IN  (/\ r.open
             /\ frame.sa = sa
             /\ r.length <= 7 * r.packets)
            => /\ raised = "none"
               /\ IF r.next >= 2 /\ r.next = r.packets + 1
                  THEN bam_found =
                         <<[data_bytes |-> SubSeq(r.cat, 1, r.length),
                            sa |-> sa, pgn |-> r.pgn,
                            timestamp |-> frame.timestamp]>>
                  ELSE bam_found = <<>>

\* C1 witness: a run of 2 frames with different data, announced length 11,
\* has just completed
C1_Witness ==
    LET r == run[frame.sa]
    IN  /\ r.open
        /\ r.packets = 2 /\ r.next = 3 /\ r.length = 11
        /\ r.cat[1] # r.cat[8]
        /\ Len(bam_found) = 1
        /\ Len(bam_found[1].data_bytes) = 11

\* C2 (as claimed): the final data-transfer frame removes the session of its
\* sender, and a data-transfer frame of the same sender that follows it
\* directly changes nothing and invokes no callback.
C2_SessionClearedOnCompletion ==
    [][/\ (LastWasDataTransfer' /\ bam_found' # <<>>)
            => frame'.sa \notin DOMAIN new_data'
       /\ (/\ LastWasDataTransfer /\ bam_found # <<>>
           /\ LastWasDataTransfer' /\ frame'.sa = frame.sa)
            => (bam_found' = <<>> /\ UNCHANGED bam_state)]_vars

\* C3: a BAM of a sender whose earlier session has data and is not complete
\* leaves exactly a freshly opened session: PGN, length and packet count of
\* this BAM, a buffer of 7 * packets bytes all 0xFF; nothing is raised and no
\* callback is invoked.
C3_BamRestartsSession ==
    \A sa \in SourceAddresses :
        LET r == run[sa]
        IN  (r.open /\ r.superseded /\ r.next = 1 /\ frame.sa = sa)
            => /\ SessionOf(sa) =
                    [pgn |-> r.pgn, length |-> r.length, packets |-> r.packets,
                     data |-> [i \in 1..(7 * r.packets) |-> 255]]
               /\ raised = "none"
               /\ bam_found = <<>>

\* C3 witness: a BAM for 2 packets has just superseded an incomplete session
C3_Witness ==
    LET r == run[frame.sa]
    IN  /\ r.open /\ r.superseded /\ r.next = 1
        /\ LastWasBam
        /\ r.packets = 2
        /\ Len(new_data[frame.sa]) = 14

\* C4 (as claimed): a data-transfer frame whose sequence number is 0 or above
\* the packet count of its sender's session raises nothing and leaves every
\* byte of the buffer as it was.
C4_OutOfBoundsDropped ==
    [][(/\ LastWasDataTransfer'
        /\ HasSession(frame'.sa)
        /\ Len(frame'.message_bytes) >= 1
        /\ \/ frame'.message_bytes[1] = 0
           \/ frame'.message_bytes[1] > new_packets[frame'.sa])
       => /\ raised' = "none"
          /\ new_data'[frame'.sa] = new_data[frame'.sa]]_vars

\* C5 (as claimed): every session's buffer length is a multiple of 7 and at
\* least the session's total length.
C5_BufferCoversLength ==
    \A sa \in DOMAIN new_data :
        /\ Len(new_data[sa]) % 7 = 0
        /\ Len(new_data[sa]) >= new_length[sa]

\* C9: a data-transfer frame of a sender without a session changes nothing
\* of the reassembly state, invokes no callback and raises nothing.
C9_NoSessionIgnored ==
    [][(LastWasDataTransfer' /\ ~HasSession(frame'.sa))
       => /\ UNCHANGED bam_state
          /\ bam_found' = <<>>
          /\ raised' = "none"]_vars

\* C9 witness: a full data-transfer frame of a sender without a session has
\* been processed while the other sender has a session
C9_Witness ==
    /\ LastWasDataTransfer
    /\ Len(frame.message_bytes) = 8
    /\ ~HasSession(frame.sa)
    /\ DOMAIN new_data # {}

\* C10: a frame of sender a changes nothing of the session of any other
\* sender b and invokes no callback that reports b.
C10_SendersIsolated ==
    [][\A b \in SourceAddresses :
          b # frame'.sa
          => /\ SessionOf(b)' = SessionOf(b)
             /\ HasSession(b)' = HasSession(b)
             /\ \A i \in 1..Len(bam_found') : bam_found'[i].sa # b]_vars

\* C10 witness: both senders have a session holding data and the frame just
\* processed completed the session of one of them
C10_Witness ==
    /\ DOMAIN new_data = SourceAddresses
    /\ \A sa \in SourceAddresses :
          Len(new_data[sa]) >= 7 /\ new_data[sa][1] # UNSET_BYTE
    /\ LastWasDataTransfer
    /\ Len(bam_found) = 1

\* ------------------------------------------------------------------------
\* Properties of parse_j1939_id
\* ------------------------------------------------------------------------
PfOf(id) == (id \div 65536) % 256
DaRawOf(id) == (id \div 256) % 256

\* C6: sa is the low byte; with pf = bits 16-23 and da_raw = bits 8-15, for
\* pf >= 240 pgn = pf*256 + da_raw and da = 255, for pf < 240 pgn = pf*256
\* and da = da_raw; the bits above bit 23 do not matter.
C6_Decomposition ==
    parsed # NotParsed
    => /\ parsed.sa = can_id % 256
       /\ IF PfOf(can_id) >= 240
          THEN parsed.pgn = PfOf(can_id) * 256 + DaRawOf(can_id) /\ parsed.da = 255
          ELSE parsed.pgn = PfOf(can_id) * 256 /\ parsed.da = DaRawOf(can_id)
       /\ parsed = parse_j1939_id(can_id % 16777216)

\* C6 witness: an identifier with bits set above bit 23, pf exactly 240 and
\* a destination byte other than 255 has been decomposed
C6_Witness ==
    /\ parsed # NotParsed
    /\ can_id >= 16777216
    /\ PfOf(can_id) = 240
    /\ DaRawOf(can_id) = 33

\* C7 (as claimed): 0x18FEF100 decomposes to pgn 65024, da 241, sa 0.
C7_ExampleAsClaimed ==
    (can_id = 419361024 /\ parsed # NotParsed)
    => parsed = [pgn |-> 65024, da |-> 241, sa |-> 0]

\* C7 (amended): 0x18FEF100 has pf = 0xFE >= 240, so it decomposes to
\* pgn 65265 (0xFE*256 + 0xF1), da 255, sa 0.
C7_ExampleAmended ==
    (can_id = 419361024 /\ parsed # NotParsed)
    => parsed = [pgn |-> 65265, da |-> 255, sa |-> 0]

\* C7 witness: 0x18FEF100 has been decomposed
C7_Witness == can_id = 419361024 /\ parsed # NotParsed

\* ------------------------------------------------------------------------
\* Properties of describe_message_data
\* ------------------------------------------------------------------------
SpnsOfMessage ==
    LET pgn == parse_j1939_id(message.message_id).pgn
    IN  IF pgn \in DOMAIN j1939db.J1939PGNdb
        THEN {j1939db.J1939PGNdb[pgn].SPNs[i] :
                 i \in 1..Len(j1939db.J1939PGNdb[pgn].SPNs)}
        ELSE {}

\* C8 (as claimed): a call for a PGN that lists an SPN the SPN database lacks
\* still returns, and its result still holds the entry of every other SPN of
\* the PGN whose value is available.
C8_LookupMissNotFatal ==
    (/\ described.status # "idle"
     /\ \E spn \in SpnsOfMessage : spn \notin DOMAIN j1939db.J1939SPNdb)
    => /\ described.status = "returned"
       /\ \A spn \in SpnsOfMessage \cap DOMAIN j1939db.J1939SPNdb :
             DescribeSpn(message.message_data, spn, message.include_na).kind
                 # "skip"
             => j1939db.J1939SPNdb[spn].Name \in DOMAIN described.description

====
